---- MODULE Spec2Model ----
(***************************************************************************)
(* A model of the subscription multiplexer of src/src/index.ts:            *)
(* ProviderRpcClient.subscribe, the Subscription handle it returns, the    *)
(* raw event dispatch loop installed by the constructor, foldSubscriptions *)
(* and mergeTransactions.                                                  *)
(*                                                                         *)
(* A JavaScript object keyed by ids is kept as the sequence of its own     *)
(* keys in insertion order; ObjectValues lists it the way the language     *)
(* does for integer keys.                                                  *)
(***************************************************************************)
EXTENDS Integers, Sequences, FiniteSets, TLC

VARIABLES
  idCounter,              \* state of getUniqueId
  handles,                \* id -> [eventName, address] of every Subscription built
  returned,               \* ids of the Subscription objects the caller holds
  subscriptions,          \* this._subscriptions: eventName -> ids in insertion order
  contractSubscriptions,  \* this._contractSubscriptions: address -> entries
  listeners,              \* Subscription._listeners, per id
  upstream,               \* the interest the provider holds, per address
  inflight,               \* api calls awaiting the transport, in the order issued
  last                    \* what the most recent step did

vars == <<idCounter, handles, returned, subscriptions, contractSubscriptions,
          listeners, upstream, inflight, last>>

\* ------------------------------------------------------------------ bounds
\* ids assigned when api calls always succeed and no listener is registered
MaxIds == 3
\* ids assigned in the specifications with failures, listeners or interleaving
MaxHandles == 2
\* api calls awaiting the transport
MaxInflight == 2
\* listeners registered on all handles together
MaxListeners == 2

\* transactions of the caller's history
MaxKnown == 3
\* transactions of one batch
MaxNew == 2

\* entries handed to foldSubscriptions
MaxItems == 3

\* ------------------------------------------------------------------ values
AddressTopics == {"transactionsFound", "contractStateChanged"}
GlobalTopics == {"disconnected", "networkChanged", "permissionsChanged", "loggedOut"}
knownEvents == GlobalTopics \cup AddressTopics

\* the inputs of the model
Addresses == {"0:a", "0:b"}
RequestedTopics == {"transactionsFound", "contractStateChanged", "networkChanged", "bogus"}
ListenedTopics == {"transactionsFound", "networkChanged"}
CycledTopics == {"transactionsFound"}
OneAddress == {"0:a"}
FailingTopics == {"transactionsFound", "contractStateChanged", "bogus"}
RawTopics == {"transactionsFound", "contractStateChanged", "networkChanged"}
Payloads == {"p1"}
SubscriptionEvent == {"data", "subscribed", "unsubscribed"}

\* logical times "1", "10" and "2": as text "10" lies between "1" and "2"
LtValues == {<<1>>, <<1, 0>>, <<2>>}
KnownTransactions == [lt : LtValues, hash : {"a"}]
NewTransactions == [lt : LtValues, hash : {"a", "b"}]
BatchInfos == [minLt : LtValues, maxLt : LtValues, batchType : {"old", "new"}]

NoAddress == "-"
NoId == 0
NoInterest == [state |-> FALSE, transactions |-> FALSE]

\* ------------------------------------------------------------------ helpers
Or(a, b) == [state |-> a.state \/ b.state, transactions |-> a.transactions \/ b.transactions]

Range(s) == {s[i] : i \in DOMAIN s}

Remove(s, x) == SelectSeq(s, LAMBDA e : e # x)

RECURSIVE SortedSeq(_)
SortedSeq(S) ==
  IF S = {} THEN <<>>
  ELSE LET m == CHOOSE x \in S : \A y \in S : x <= y
       IN <<m>> \o SortedSeq(S \ {m})

\* Object.values of an object whose keys are ids: integer keys are listed in
\* ascending numeric order, whatever the order they were inserted in.
ObjectValues(keys) == SortedSeq(Range(keys))

\* obj[id] = value
SetKey(keys, id) == IF id \in Range(keys) THEN keys ELSE Append(keys, id)

\* delete obj[id]
DeleteKey(keys, id) == Remove(keys, id)

\* ------------------------------------------------------------------ buckets
\* An entry of an address bucket: the ContractUpdatesSubscription of one id.
Entry(id, eventName) ==
  [id |-> id,
   state |-> (eventName = "contractStateChanged"),
   transactions |-> (eventName = "transactionsFound")]

Flags(e) == [state |-> e.state, transactions |-> e.transactions]

EntryIds(bucket) == {bucket[i].id : i \in DOMAIN bucket}

\* Object.values of a bucket: its entries by ascending id.
BucketValues(bucket) ==
  LET order == SortedSeq(EntryIds(bucket))
  IN [i \in 1..Len(order) |-> CHOOSE e \in Range(bucket) : e.id = order[i]]

\* contractSubscriptions[id] = entry
SetEntry(bucket, e) ==
  IF e.id \in EntryIds(bucket)
    THEN [i \in DOMAIN bucket |-> IF bucket[i].id = e.id THEN e ELSE bucket[i]]
    ELSE Append(bucket, e)

\* delete contractSubscriptions[id]
DeleteEntry(bucket, id) == SelectSeq(bucket, LAMBDA e : e.id # id)

\* contractSubscriptions[id], NoId standing for undefined
Lookup(bucket, id) == IF id \in EntryIds(bucket) THEN id ELSE NoId

RECURSIVE foldLoop(_, _, _, _)
foldLoop(items, except, total, withoutExcluded) ==
  IF items = <<>> \/ (withoutExcluded.transactions /\ withoutExcluded.state)
    THEN [total |-> total, withoutExcluded |-> withoutExcluded]
    ELSE LET item == Head(items)
         IN foldLoop(Tail(items), except, Or(total, Flags(item)),
                     IF item.id # except THEN Or(withoutExcluded, Flags(item))
                                         ELSE withoutExcluded)

\* variant: the excluded entry is recognised by its flag values, not its identity
foldValueCompared(items, except) ==
  LET all == foldLoop(items, NoId, NoInterest, NoInterest).total
      mine == {i \in DOMAIN items : items[i].id = except}
      rest == SelectSeq(items, LAMBDA e : \A i \in mine : Flags(e) # Flags(items[i]))
  IN [total |-> all,
      withoutExcluded |-> foldLoop(rest, NoId, NoInterest, NoInterest).total]

\* variant: the loop stops once total, not withoutExcluded, has both flags
RECURSIVE foldLoopOnTotal(_, _, _, _)
foldLoopOnTotal(items, except, total, withoutExcluded) ==
  IF items = <<>> \/ (total.transactions /\ total.state)
    THEN [total |-> total, withoutExcluded |-> withoutExcluded]
    ELSE LET item == Head(items)
         IN foldLoopOnTotal(Tail(items), except, Or(total, Flags(item)),
                            IF item.id # except THEN Or(withoutExcluded, Flags(item))
                                                ELSE withoutExcluded)

foldExitsOnTotal(items, except) == foldLoopOnTotal(items, except, NoInterest, NoInterest)

\* items: the entries in iteration order; except: the id whose entry is the
\* excluded object (entries are compared by identity), NoId when undefined.
foldSubscriptions(items, except) == foldLoop(items, except, NoInterest, NoInterest)

\* ------------------------------------------------------------------ transactions
\* A logical time is a string of decimal digits, kept as the sequence of its
\* digits. String.localeCompare on such strings orders them as text: digit by
\* digit, a proper prefix first, so that "10" comes before "2".
\* variant: logical times are compared as numbers, "10" above "2"
RECURSIVE LtNumber(_)
LtNumber(a) == IF a = <<>> THEN 0 ELSE LtNumber(SubSeq(a, 1, Len(a) - 1)) * 10 + a[Len(a)]

localeCompareNumeric(a, b) ==
  IF LtNumber(a) < LtNumber(b) THEN -1 ELSE IF LtNumber(a) > LtNumber(b) THEN 1 ELSE 0

RECURSIVE localeCompare(_, _)
localeCompare(a, b) ==
  IF a = <<>> THEN (IF b = <<>> THEN 0 ELSE -1)
  ELSE IF b = <<>> THEN 1
  ELSE IF Head(a) < Head(b) THEN -1
  ELSE IF Head(a) > Head(b) THEN 1
  ELSE localeCompare(Tail(a), Tail(b))

\* Array.prototype.splice(i, 0, ...items), i counted from 0
Splice(s, i, items) == SubSeq(s, 1, i) \o items \o SubSeq(s, i + 1, Len(s))

\* variant: the loop also stops at an entry whose lt equals maxLt
skipWhileGreater(known, maxLt, i) ==
  LET after == {j \in i..Len(known) :
                  \A k \in (i + 1)..j : localeCompare(known[k].lt, maxLt) > 0}
  IN CHOOSE j \in after : \A k \in after : k <= j

\* the while loop of mergeTransactions: i counted from 0
RECURSIVE skipKnown(_, _, _)
skipKnown(known, maxLt, i) ==
  IF i < Len(known) /\ localeCompare(known[i + 1].lt, maxLt) >= 0
    THEN skipKnown(known, maxLt, i + 1)
    ELSE i

\* variant: a batch of type 'old' is placed by the scan as well
mergeAlwaysScans(knownTransactions, newTransactions, info) ==
  Splice(knownTransactions, skipKnown(knownTransactions, info.maxLt, 0), newTransactions)

\* mergeTransactions: the array it leaves in knownTransactions and returns
mergeTransactions(knownTransactions, newTransactions, info) ==
  IF info.batchType = "old"
    THEN knownTransactions \o newTransactions
    ELSE IF Len(knownTransactions) = 0
      THEN knownTransactions \o newTransactions
      ELSE Splice(knownTransactions, skipKnown(knownTransactions, info.maxLt, 0),
                  newTransactions)

\* ------------------------------------------------------------------ upstream calls
ApiSubscribe(address, flags) ==
  [method |-> "subscribe", address |-> address, subscriptions |-> flags]

ApiUnsubscribe(address) ==
  [method |-> "unsubscribe", address |-> address, subscriptions |-> NoInterest]

\* the call the subscribe action awaits, if any
SubscribeCalls(address, f) ==
  IF f.total.transactions # f.withoutExcluded.transactions
     \/ f.total.state # f.withoutExcluded.state
    THEN <<ApiSubscribe(address, f.total)>>
    ELSE <<>>

\* variant: no narrowing subscribe when others remain
UnsubscribeCallsNoNarrowing(address, f) ==
  IF ~f.withoutExcluded.transactions /\ ~f.withoutExcluded.state
    THEN <<ApiUnsubscribe(address)>>
    ELSE <<>>

\* variant: a subscribe with what is left, even when nothing is left
UnsubscribeCallsResubscribe(address, f) ==
  IF f.total.transactions # f.withoutExcluded.transactions
     \/ f.total.state # f.withoutExcluded.state
    THEN <<ApiSubscribe(address, f.withoutExcluded)>>
    ELSE <<>>

\* the call the unsubscribe action awaits, if any
UnsubscribeCalls(address, f) ==
  IF ~f.withoutExcluded.transactions /\ ~f.withoutExcluded.state
    THEN <<ApiUnsubscribe(address)>>
    ELSE IF f.total.transactions # f.withoutExcluded.transactions
            \/ f.total.state # f.withoutExcluded.state
      THEN <<ApiSubscribe(address, f.withoutExcluded)>>
      ELSE <<>>

\* ------------------------------------------------------------------ registries
\* _getEventSubscriptions: the map of a topic, created empty when missing
getEventSubscriptions(subs, eventName) ==
  IF eventName \in DOMAIN subs
    THEN subs
    ELSE [t \in DOMAIN subs \cup {eventName} |->
            IF t = eventName THEN <<>> ELSE subs[t]]

NoEffect(subs, cs) ==
  [subscriptions |-> subs, contractSubscriptions |-> cs, calls |-> <<>>]

\* the subscribe action of a global topic
globalSubscribeAction(subs, cs, id, eventName) ==
  IF id \in Range(subs[eventName])
    THEN NoEffect(subs, cs)
    ELSE NoEffect([subs EXCEPT ![eventName] = SetKey(@, id)], cs)

\* the unsubscribe action of a global topic
globalUnsubscribeAction(subs, cs, id, eventName) ==
  NoEffect([subs EXCEPT ![eventName] = DeleteKey(@, id)], cs)

\* variant: the subscribe action without the check for a callback already present
subscribeActionUnguarded(subs, cs, id, eventName, address) ==
  LET subs2 == [subs EXCEPT ![eventName] = SetKey(@, id)]
      cs1 == IF address \in DOMAIN cs
               THEN cs
               ELSE [a \in DOMAIN cs \cup {address} |->
                       IF a = address THEN <<>> ELSE cs[a]]
      cs2 == [cs1 EXCEPT ![address] = SetEntry(@, Entry(id, eventName))]
      f == foldSubscriptions(BucketValues(cs2[address]), Lookup(cs2[address], id))
  IN [subscriptions |-> subs2,
      contractSubscriptions |-> cs2,
      calls |-> SubscribeCalls(address, f)]

\* the subscribe action of an address-scoped topic, up to its await
subscribeAction(subs, cs, id, eventName, address) ==
  IF id \in Range(subs[eventName])
    THEN NoEffect(subs, cs)
    ELSE LET subs2 == [subs EXCEPT ![eventName] = SetKey(@, id)]
             cs1 == IF address \in DOMAIN cs
                      THEN cs
                      ELSE [a \in DOMAIN cs \cup {address} |->
                              IF a = address THEN <<>> ELSE cs[a]]
             cs2 == [cs1 EXCEPT ![address] = SetEntry(@, Entry(id, eventName))]
             f == foldSubscriptions(BucketValues(cs2[address]), Lookup(cs2[address], id))
         IN [subscriptions |-> subs2,
             contractSubscriptions |-> cs2,
             calls |-> SubscribeCalls(address, f)]

\* variant: the catch block forgets the bucket entry
subscribeRollbackKeepsEntry(subs, cs, id, eventName, address) ==
  [subscriptions |-> [subs EXCEPT ![eventName] = DeleteKey(@, id)],
   contractSubscriptions |-> cs]

\* the catch block of the subscribe action
subscribeRollback(subs, cs, id, eventName, address) ==
  [subscriptions |-> [subs EXCEPT ![eventName] = DeleteKey(@, id)],
   contractSubscriptions |-> [cs EXCEPT ![address] = DeleteEntry(@, id)]]

\* variant: the unsubscribe action leaves the callback in the topic's map
unsubscribeActionKeepsCallback(subs, cs, id, eventName, address) ==
  IF address \notin DOMAIN cs
    THEN NoEffect(subs, cs)
    ELSE LET f == foldSubscriptions(BucketValues(cs[address]), Lookup(cs[address], id))
         IN [subscriptions |-> subs,
             contractSubscriptions |-> [cs EXCEPT ![address] = DeleteEntry(@, id)],
             calls |-> UnsubscribeCalls(address, f)]

\* the unsubscribe action of an address-scoped topic, up to its await
unsubscribeAction(subs, cs, id, eventName, address) ==
  LET subs2 == [subs EXCEPT ![eventName] = DeleteKey(@, id)]
  IN IF address \notin DOMAIN cs
       THEN NoEffect(subs2, cs)
       ELSE LET f == foldSubscriptions(BucketValues(cs[address]), Lookup(cs[address], id))
            IN [subscriptions |-> subs2,
                contractSubscriptions |-> [cs EXCEPT ![address] = DeleteEntry(@, id)],
                calls |-> UnsubscribeCalls(address, f)]

\* ------------------------------------------------------------------ listeners
NoListeners == [data |-> <<>>, subscribed |-> <<>>, unsubscribed |-> <<>>]

NoData == [address |-> NoAddress, payload |-> "-"]

Invocation(id, event, listener, data) ==
  [id |-> id, event |-> event, listener |-> listener, data |-> data]

\* variant: the listeners are invoked last registered first
EmitReversed(ls, id, event, data) ==
  [i \in 1..Len(ls[event]) |->
     Invocation(id, event, ls[event][Len(ls[event]) + 1 - i], data)]

\* for (const handler of this._listeners[event]) handler(data)
Emit(ls, id, event, data) ==
  [i \in 1..Len(ls[event]) |-> Invocation(id, event, ls[event][i], data)]

\* Subscription.notify
notify(id, data) == Emit(listeners[id], id, "data", data)

\* variant: the callback does not compare addresses
callbackUnfiltered(id, data) == notify(id, data)

\* the callback a subscribe action installs in the topic's map
callback(id, data) ==
  IF handles[id].eventName \in AddressTopics
    THEN IF data.address = handles[id].address THEN notify(id, data) ELSE <<>>
    ELSE notify(id, data)

RECURSIVE Concat(_)
Concat(ss) == IF ss = <<>> THEN <<>> ELSE Head(ss) \o Concat(Tail(ss))

\* the number of listeners registered on all handles
TotalListeners ==
  Cardinality(UNION {{<<id, e, i>> : i \in DOMAIN listeners[id][e]} :
                       <<id, e>> \in (DOMAIN listeners) \X SubscriptionEvent})

\* ------------------------------------------------------------------ steps
\* The registry entries an operation on (eventName, address) can touch, as they
\* are when it begins.
Pre(eventName, address) ==
  [subs |-> IF eventName \in DOMAIN subscriptions
              THEN Range(subscriptions[eventName]) ELSE {},
   bucket |-> IF address \in DOMAIN contractSubscriptions
                THEN Range(contractSubscriptions[address]) ELSE {}]

NoPre == [subs |-> {}, bucket |-> {}]

\* What a step did: the operation, its handle and topic, how it settled for its
\* caller, what the transport answered, the api calls it issued, the listener
\* invocations it made, and the entries as they were when the operation began.
Step(op, id, h, result, transport, calls, fired, pre) ==
  [op |-> op, id |-> id, eventName |-> h.eventName, address |-> h.address,
   result |-> result, transport |-> transport, calls |-> calls, fired |-> fired,
   order |-> <<>>, data |-> NoData, pre |-> pre]

NoHandle == [eventName |-> "-", address |-> NoAddress]

ListenerEvent(op) == IF op = "unsubscribe" THEN "unsubscribed" ELSE "subscribed"

\* An operation of a handle has run its action up to the await, if any: without
\* an upstream call it settles and its listeners fire, with one it waits.
Begin(op, id, h, eff, pre, ls) ==
  /\ Len(inflight) < MaxInflight
  /\ subscriptions' = eff.subscriptions
  /\ contractSubscriptions' = eff.contractSubscriptions
  /\ upstream' = upstream
  /\ IF eff.calls = <<>>
       THEN /\ inflight' = inflight
            /\ returned' = IF op = "create" THEN returned \cup {id} ELSE returned
            /\ last' = Step(op, id, h, "resolved", "none", <<>>,
                            Emit(ls, id, ListenerEvent(op), NoData), pre)
       ELSE /\ inflight' = Append(inflight,
                                  [op |-> op, id |-> id, handle |-> h,
                                   call |-> eff.calls[1], pre |-> pre])
            /\ returned' = returned
            /\ last' = Step(op, id, h, "pending", "none", eff.calls, <<>>, pre)

\* getUniqueId of ./utils: ids are assigned in increasing order
getUniqueId(counter) == counter + 1

\* ProviderRpcClient.subscribe(eventName, params)
ProviderSubscribe(eventName, address) ==
  LET subs == getEventSubscriptions(subscriptions, eventName)
      id == getUniqueId(idCounter)
  IN /\ idCounter < MaxIds
     /\ idCounter' = id
     /\ IF eventName \in GlobalTopics \cup AddressTopics
          THEN /\ handles' = [h \in DOMAIN handles \cup {id} |->
                                IF h = id THEN [eventName |-> eventName, address |-> address]
                                          ELSE handles[h]]
               /\ listeners' = [h \in DOMAIN listeners \cup {id} |->
                                  IF h = id THEN NoListeners ELSE listeners[h]]
               /\ Begin("create", id, [eventName |-> eventName, address |-> address],
                        IF eventName \in GlobalTopics
                          THEN globalSubscribeAction(subs, contractSubscriptions, id, eventName)
                          ELSE subscribeAction(subs, contractSubscriptions, id, eventName, address),
                        Pre(eventName, address), NoListeners)
          ELSE /\ subscriptions' = subs
               /\ last' = Step("create", id, [eventName |-> eventName, address |-> address],
                               "rejected", "none", <<>>, <<>>, Pre(eventName, address))
               /\ UNCHANGED <<handles, returned, contractSubscriptions, listeners,
                              upstream, inflight>>

\* Subscription.subscribe()
HandleSubscribe(id) ==
  LET h == handles[id]
  IN /\ id \in returned
     /\ Begin("subscribe", id, h,
              IF h.eventName \in GlobalTopics
                THEN globalSubscribeAction(subscriptions, contractSubscriptions, id, h.eventName)
                ELSE subscribeAction(subscriptions, contractSubscriptions, id,
                                     h.eventName, h.address),
              Pre(h.eventName, h.address), listeners[id])
     /\ UNCHANGED <<idCounter, handles, listeners>>

\* Subscription.unsubscribe()
HandleUnsubscribe(id) ==
  LET h == handles[id]
  IN /\ id \in returned
     /\ Begin("unsubscribe", id, h,
              IF h.eventName \in GlobalTopics
                THEN globalUnsubscribeAction(subscriptions, contractSubscriptions, id, h.eventName)
                ELSE unsubscribeAction(subscriptions, contractSubscriptions, id,
                                       h.eventName, h.address),
              Pre(h.eventName, h.address), listeners[id])
     /\ UNCHANGED <<idCounter, handles, listeners>>

\* Subscription.on(eventName, listener): the listener is named by its place
On(id, event) ==
  /\ id \in returned
  /\ TotalListeners < MaxListeners
  /\ listeners' = [listeners EXCEPT ![id][event] = Append(@, Len(@) + 1)]
  /\ last' = Step("on", id, handles[id], "resolved", "none", <<>>, <<>>, NoPre)
  /\ UNCHANGED <<idCounter, handles, returned, subscriptions, contractSubscriptions,
                 upstream, inflight>>

\* The transport resolves the oldest api call: the provider holds what the call
\* asked for, and the operation that awaited it settles.
TransportResolve ==
  /\ inflight # <<>>
  /\ LET c == Head(inflight)
     IN /\ upstream' = [upstream EXCEPT ![c.call.address] = c.call.subscriptions]
        /\ returned' = IF c.op = "create" THEN returned \cup {c.id} ELSE returned
        /\ last' = Step(c.op, c.id, c.handle, "resolved", "ok", <<c.call>>,
                        Emit(listeners[c.id], c.id, ListenerEvent(c.op), NoData), c.pre)
  /\ inflight' = Tail(inflight)
  /\ UNCHANGED <<idCounter, handles, subscriptions, contractSubscriptions, listeners>>

\* variant: an operation whose api call is rejected issues the call again
TransportRejectRetries ==
  /\ inflight # <<>>
  /\ last' = [last EXCEPT !.transport = "error"]
  /\ inflight' = Append(Tail(inflight), Head(inflight))
  /\ UNCHANGED <<idCounter, handles, returned, subscriptions, contractSubscriptions,
                 listeners, upstream>>

\* The transport rejects the oldest api call: a subscribe action rolls back and
\* rethrows, an unsubscribe action just throws.
TransportReject ==
  /\ inflight # <<>>
  /\ LET c == Head(inflight)
         h == c.handle
         back == subscribeRollback(subscriptions, contractSubscriptions, c.id,
                                   h.eventName, h.address)
     IN /\ IF c.op = "unsubscribe"
             THEN UNCHANGED <<subscriptions, contractSubscriptions>>
             ELSE /\ subscriptions' = back.subscriptions
                  /\ contractSubscriptions' = back.contractSubscriptions
        /\ last' = Step(c.op, c.id, h, "rejected", "error", <<c.call>>, <<>>, c.pre)
        \* a Subscription whose first subscribe() throws is never returned
        /\ handles' = IF c.op = "create"
                        THEN [i \in DOMAIN handles \ {c.id} |-> handles[i]]
                        ELSE handles
        /\ listeners' = IF c.op = "create"
                          THEN [i \in DOMAIN listeners \ {c.id} |-> listeners[i]]
                          ELSE listeners
  /\ inflight' = Tail(inflight)
  /\ UNCHANGED <<idCounter, returned, upstream>>

\* The listener the constructor adds for every known event, on a raw event.
Dispatch(eventName, data) ==
  /\ eventName \in knownEvents
  /\ LET order == IF eventName \in DOMAIN subscriptions
                    THEN ObjectValues(subscriptions[eventName])
                    ELSE <<>>
     IN last' = [op |-> "dispatch", id |-> NoId, eventName |-> eventName,
                 address |-> data.address, result |-> "resolved", transport |-> "none",
                 calls |-> <<>>,
                 fired |-> Concat([i \in 1..Len(order) |-> callback(order[i], data)]),
                 order |-> order, data |-> data, pre |-> NoPre]
  /\ UNCHANGED <<idCounter, handles, returned, subscriptions, contractSubscriptions,
                 listeners, upstream, inflight>>

\* a listener's call of unsubscribe() on a handle, in the place of the pass
\* where it is made
Reentry(target, listener, data) ==
  [id |-> target, event |-> "unsubscribe()", listener |-> listener, data |-> data]

\* The same listener on a raw event, when the first data listener of handle
\* `by` calls unsubscribe() on handle `target`: the unsubscribe action runs up
\* to its await inside the pass, while the loop goes on over the array that
\* Object.values made when the pass began. An unsubscribe() that awaits no api
\* call settles right after the pass.
DispatchUnsubscribing(eventName, data, by, target) ==
  /\ eventName \in knownEvents
  /\ eventName \in DOMAIN subscriptions
  /\ by \in Range(subscriptions[eventName])
  /\ callback(by, data) # <<>>
  /\ target \in returned
  /\ Len(inflight) < MaxInflight
  /\ LET order == ObjectValues(subscriptions[eventName])
         passed == [i \in 1..Len(order) |-> callback(order[i], data)]
         k == CHOOSE i \in 1..Len(order) : order[i] = by
         h == handles[target]
         eff == IF h.eventName \in GlobalTopics
                  THEN globalUnsubscribeAction(subscriptions, contractSubscriptions,
                                               target, h.eventName)
                  ELSE unsubscribeAction(subscriptions, contractSubscriptions, target,
                                         h.eventName, h.address)
         pre == Pre(h.eventName, h.address)
     IN /\ subscriptions' = eff.subscriptions
        /\ contractSubscriptions' = eff.contractSubscriptions
        /\ inflight' = IF eff.calls = <<>>
                         THEN inflight
                         ELSE Append(inflight, [op |-> "unsubscribe", id |-> target,
                                                handle |-> h, call |-> eff.calls[1],
                                                pre |-> pre])
        /\ last' = [op |-> "dispatch", id |-> NoId, eventName |-> eventName,
                    address |-> data.address, result |-> "resolved",
                    transport |-> "none", calls |-> eff.calls,
                    fired |-> Concat(SubSeq(passed, 1, k - 1))
                                \o <<passed[k][1],
                                     Reentry(target, passed[k][1].listener, data)>>
                                \o Tail(passed[k])
                                \o Concat(SubSeq(passed, k + 1, Len(passed)))
                                \o (IF eff.calls = <<>>
                                      THEN Emit(listeners[target], target,
                                                "unsubscribed", NoData)
                                      ELSE <<>>),
                    order |-> order, data |-> data, pre |-> pre]
  /\ UNCHANGED <<idCounter, handles, returned, listeners, upstream>>

RawData(eventName) ==
  [address : IF eventName \in AddressTopics THEN Addresses ELSE {NoAddress},
   payload : Payloads]

\* ------------------------------------------------------------------ specifications
Init ==
  /\ idCounter = 0
  /\ handles = <<>>
  /\ returned = {}
  /\ subscriptions = <<>>
  /\ contractSubscriptions = <<>>
  /\ listeners = <<>>
  /\ upstream = [a \in Addresses |-> NoInterest]
  /\ inflight = <<>>
  /\ last = Step("init", NoId, NoHandle, "resolved", "none", <<>>, <<>>, NoPre)

Create(topics, addresses) ==
  \E eventName \in topics :
    \E address \in (IF eventName \in AddressTopics THEN addresses ELSE {NoAddress}) :
      ProviderSubscribe(eventName, address)

Operate ==
  \/ \E id \in DOMAIN handles : HandleSubscribe(id)
  \/ \E id \in DOMAIN handles : HandleUnsubscribe(id)

Register(events) == \E id \in DOMAIN handles : \E event \in events : On(id, event)

Deliver ==
  \E eventName \in RawTopics : \E data \in RawData(eventName) : Dispatch(eventName, data)

Redeliver ==
  \E eventName \in RawTopics : \E data \in RawData(eventName) :
    \E by \in DOMAIN handles : \E target \in DOMAIN handles :
      DispatchUnsubscribing(eventName, data, by, target)

Idle == inflight = <<>>

\* every operation completes before the next starts, every api call succeeds
NextOk ==
  \/ Idle /\ Create(RequestedTopics, Addresses)
  \/ Idle /\ Operate
  \/ TransportResolve

SpecOk == Init /\ [][NextOk]_vars

\* every operation completes before the next starts, api calls may fail
NextSeq ==
  \/ Idle /\ idCounter < MaxHandles /\ Create(FailingTopics, OneAddress)
  \/ Idle /\ Operate
  \/ Idle /\ Register({"subscribed"})
  \/ TransportResolve
  \/ TransportReject

SpecSeq == Init /\ [][NextSeq]_vars

\* every operation completes before the next starts, raw events arrive in between
NextEvents ==
  \/ Idle /\ idCounter < MaxHandles /\ Create(ListenedTopics, Addresses)
  \/ Idle /\ Operate
  \/ Idle /\ Register({"data"})
  \/ Idle /\ Deliver
  \/ TransportResolve

SpecEvents == Init /\ [][NextEvents]_vars

\* the same, with listeners of every kind on the handles of fewer topics
NextCycles ==
  \/ Idle /\ idCounter < MaxHandles /\ Create(CycledTopics, OneAddress)
  \/ Idle /\ Operate
  \/ Idle /\ Register(SubscriptionEvent)
  \/ Idle /\ Deliver
  \/ TransportResolve

SpecCycles == Init /\ [][NextCycles]_vars

\* operations on the handles of one address start while others await the transport
Next ==
  \/ idCounter < MaxHandles /\ Create(AddressTopics, OneAddress)
  \/ Operate
  \/ TransportResolve
  \/ TransportReject

Spec == Init /\ [][Next]_vars

SeqsUpTo(S, n) == UNION {[1..k -> S] : k \in 0..n}

\* no Subscription exists and no step of the multiplexer is taken
NoProvider ==
  /\ idCounter = 0
  /\ handles = <<>>
  /\ returned = {}
  /\ subscriptions = <<>>
  /\ contractSubscriptions = <<>>
  /\ listeners = <<>>
  /\ upstream = [a \in Addresses |-> NoInterest]
  /\ inflight = <<>>

\* a caller is about to merge a batch into its history
InitMerge ==
  /\ NoProvider
  /\ \E known \in SeqsUpTo(KnownTransactions, MaxKnown) :
       \E new \in SeqsUpTo(NewTransactions, MaxNew) :
         \E info \in BatchInfos :
           last = [op |-> "call", knownTransactions |-> known,
                   newTransactions |-> new, info |-> info, result |-> <<>>]

\* the call of mergeTransactions: knownTransactions is modified and returned
MergeTransactions ==
  /\ last.op = "call"
  /\ last' = [last EXCEPT
                !.op = "mergeTransactions",
                !.result = mergeTransactions(last.knownTransactions,
                                             last.newTransactions, last.info)]
  /\ UNCHANGED <<idCounter, handles, returned, subscriptions, contractSubscriptions,
                 listeners, upstream, inflight>>

SpecMerge == InitMerge /\ [][MergeTransactions]_vars

\* the entries of a bucket in iteration order, the i-th being the object of id i
ItemLists ==
  UNION {{[i \in 1..n |-> [id |-> i, state |-> f[i].state,
                           transactions |-> f[i].transactions]] :
            f \in [1..n -> [state : BOOLEAN, transactions : BOOLEAN]]} :
           n \in 0..MaxItems}

\* a caller is about to fold the entries: except is one of them, an object that
\* is not among them, or undefined
InitFold ==
  /\ NoProvider
  /\ \E items \in ItemLists : \E except \in {NoId} \cup (1..MaxItems) :
       last = [op |-> "call", items |-> items, except |-> except,
               result |-> [total |-> NoInterest, withoutExcluded |-> NoInterest]]

FoldSubscriptions ==
  /\ last.op = "call"
  /\ last' = [last EXCEPT !.op = "foldSubscriptions",
                          !.result = foldSubscriptions(last.items, last.except)]
  /\ UNCHANGED <<idCounter, handles, returned, subscriptions, contractSubscriptions,
                 listeners, upstream, inflight>>

SpecFold == InitFold /\ [][FoldSubscriptions]_vars

\* the transport settles the oldest pending api call
Settle == TransportResolve \/ TransportReject

\* interleaved operations on the handles of a global and an address-scoped
\* topic, the transport settling every api call it is given
NextFair ==
  \/ idCounter < MaxHandles /\ Create(ListenedTopics, OneAddress)
  \/ Operate
  \/ TransportResolve
  \/ TransportReject

FairSpec == Init /\ [][NextFair]_vars /\ WF_vars(Settle)

\* raw events arrive at any time, also while an operation awaits the transport,
\* and a data listener may call unsubscribe() during a pass; api calls may fail
NextPass ==
  \/ Idle /\ idCounter < MaxHandles /\ Create(ListenedTopics, OneAddress)
  \/ Idle /\ Operate
  \/ Idle /\ Register({"data"})
  \/ Deliver
  \/ Redeliver
  \/ TransportResolve
  \/ TransportReject

SpecPass == Init /\ [][NextPass]_vars

\* ------------------------------------------------------------------ properties
\* the boolean-OR of the flags of a set of entries
OrAll(entries) ==
  [state |-> \E e \in entries : e.state,
   transactions |-> \E e \in entries : e.transactions]

Bucket(address) ==
  IF address \in DOMAIN contractSubscriptions
    THEN Range(contractSubscriptions[address]) ELSE {}

Registered(eventName) ==
  IF eventName \in DOMAIN subscriptions THEN Range(subscriptions[eventName]) ELSE {}

Ids(entries) == {e.id : e \in entries}

HandleOps == {"create", "subscribe", "unsubscribe"}

\* the last step belongs to an operation of a handle of an address-scoped topic
OnAddress == last.op \in HandleOps /\ last.eventName \in AddressTopics

\* the operation of the last step has completed, every api call having succeeded
Completed == OnAddress /\ last.result = "resolved" /\ Idle

\* C1: with operations run one after the other and every api call succeeding,
\* after every completed operation the interest the provider holds for an
\* address is exactly the OR of the flags of the ids in the address's bucket.
C1_UpstreamIsAggregate ==
  Idle => \A a \in Addresses : upstream[a] = OrAll(Bucket(a))

\* an unsubscribe has narrowed the provider's interest to what the others want
C1_Witness ==
  /\ Completed
  /\ last.op = "unsubscribe"
  /\ last.calls # <<>>
  /\ last.calls[1].method = "subscribe"
  /\ upstream[last.address] = OrAll(Bucket(last.address))
  /\ upstream[last.address] # NoInterest

\* C2: an operation issues an api call if and only if it changes the OR of
\* the registered flags of its address, and that one call carries the new OR:
\* a subscribe with it, or an unsubscribe when it has become {false, false}.
C2_CallIffAggregateChanges ==
  Completed =>
    LET before == OrAll(last.pre.bucket)
        after == OrAll(Bucket(last.address))
    IN /\ (last.calls # <<>>) <=> (after # before)
       /\ last.calls # <<>> =>
            last.calls = <<IF after = NoInterest
                             THEN ApiUnsubscribe(last.address)
                             ELSE ApiSubscribe(last.address, after)>>

\* C3: when the only handle registered for an address unsubscribes, the
\* operation issues exactly one api unsubscribe for the address and no subscribe.
C3_LastHandleUnsubscribes ==
  (OnAddress /\ last.op = "unsubscribe" /\ Ids(last.pre.bucket) = {last.id})
    => last.calls = <<ApiUnsubscribe(last.address)>>

C3_Witness ==
  /\ Completed
  /\ last.op = "unsubscribe"
  /\ Ids(last.pre.bucket) = {last.id}
  /\ last.id \in last.pre.subs
  /\ last.calls = <<ApiUnsubscribe(last.address)>>
  /\ upstream[last.address] = NoInterest

\* C4: when a registered handle unsubscribes while another handle stays
\* registered for the address: no api call if the others' OR equals the OR
\* before, otherwise exactly one api subscribe carrying the others' OR and never
\* an unsubscribe; the other handles keep their entries and their callbacks, and
\* the provider ends up holding what they want.
C4_OthersRemain ==
  (OnAddress /\ last.op = "unsubscribe" /\ last.id \in Ids(last.pre.bucket)
     /\ Ids(last.pre.bucket) # {last.id})
    => LET others == {e \in last.pre.bucket : e.id # last.id}
           before == OrAll(last.pre.bucket)
           remaining == OrAll(others)
       IN /\ last.calls = IF remaining = before
                            THEN <<>>
                            ELSE <<ApiSubscribe(last.address, remaining)>>
          /\ Bucket(last.address) = others
          /\ Registered(last.eventName) = last.pre.subs \ {last.id}
          /\ \A e \in others : e.id \in Registered(handles[e.id].eventName)
          /\ Completed => upstream[last.address] = remaining

\* a handle of one kind has unsubscribed and the handle of the other kind remains
C4_Witness ==
  /\ Completed
  /\ last.op = "unsubscribe"
  /\ last.id \in Ids(last.pre.bucket)
  /\ last.calls = <<ApiSubscribe(last.address, OrAll(Bucket(last.address)))>>
  /\ \E e \in Bucket(last.address) : e.id \in Registered(handles[e.id].eventName)
  /\ OrAll(last.pre.bucket) = [state |-> TRUE, transactions |-> TRUE]

\* the transport has rejected the api call the operation of the last step awaited
UpstreamFailed == last.op \in HandleOps /\ last.transport = "error"

\* C5: if the api subscribe issued by a handle's subscribe() fails, then when
\* subscribe() rejects the handle's id is in neither the topic's map nor the
\* address's bucket, the other ids' entries are as they were, the caller gets
\* the error, and no listener of the handle has been invoked.
C5_FailedSubscribeRollsBack ==
  (UpstreamFailed /\ last.op \in {"create", "subscribe"})
    => /\ last.result = "rejected"
       /\ last.id \notin Registered(last.eventName)
       /\ last.id \notin Ids(Bucket(last.address))
       /\ Registered(last.eventName) = last.pre.subs \ {last.id}
       /\ Bucket(last.address) = {e \in last.pre.bucket : e.id # last.id}
       /\ last.fired = <<>>

\* a re-subscribe of a handle that has a 'subscribed' listener has failed while
\* another handle is registered for the address
C5_Witness ==
  /\ UpstreamFailed
  /\ last.op = "subscribe"
  /\ last.result = "rejected"
  /\ listeners[last.id].subscribed # <<>>
  /\ Bucket(last.address) # {}
  /\ last.id \notin Registered(last.eventName)

\* C6: if the transport rejects the api call of a handle operation, subscribe()
\* or unsubscribe(), then when the error reaches the caller the address's bucket
\* and the topic's callbacks are exactly as they were before the operation began.
C6_FailureRestoresEntries ==
  UpstreamFailed
    => /\ last.result = "rejected"
       /\ Registered(last.eventName) = last.pre.subs
       /\ Bucket(last.address) = last.pre.bucket

\* C7: subscribe(topic) with a topic outside the enumerated set fails, leaves
\* both registries exactly as they were and issues no api call.
C7_UnknownTopicChangesNothing ==
  [][(idCounter' # idCounter /\ last'.eventName \notin knownEvents)
       => /\ last'.result = "rejected"
          /\ subscriptions' = subscriptions
          /\ contractSubscriptions' = contractSubscriptions
          /\ inflight' = inflight]_vars

\* the invocations one handle's listeners got in the last step, in order
FiredOf(id) == SelectSeq(last.fired, LAMBDA v : v.id = id)

\* every listener of one kind of a handle invoked once, in registration order
EachOnce(id, event, data) ==
  [i \in 1..Len(listeners[id][event]) |->
     Invocation(id, event, listeners[id][event][i], data)]

Ascending(s) == \A i, j \in DOMAIN s : i < j => s[i] < s[j]

\* C8: within one dispatch pass the callbacks of the topic are
\* invoked in the order in which the subscribe() calls registered them, also
\* after a handle with an older id has unsubscribed and re-subscribed.
C8_RegistrationOrder ==
  (last.op = "dispatch" /\ last.eventName \in DOMAIN subscriptions)
    => last.order = subscriptions[last.eventName]

\* What the dispatch loop does: within one pass every registered callback of
\* the topic is invoked once, in ascending order of ids, the order in which the
\* handles were created; that is the registration order unless a handle has
\* re-subscribed after a handle with a newer id registered.
DispatchInIdOrder ==
  (last.op = "dispatch" /\ last.eventName \in DOMAIN subscriptions)
    => /\ Range(last.order) = Registered(last.eventName)
       /\ Len(last.order) = Cardinality(Registered(last.eventName))
       /\ Ascending(last.order)
       /\ Ascending(subscriptions[last.eventName])
            => last.order = subscriptions[last.eventName]

\* a handle is to get a raw event: its callback is in the topic's map, which
\* makes the topic the handle's, and for an address-scoped topic the event's
\* address is the address the handle was created for
Wanted(id) ==
  /\ id \in Registered(last.eventName)
  /\ handles[id].eventName = last.eventName
  /\ last.eventName \in AddressTopics => last.data.address = handles[id].address

\* C9: for every raw event and every handle, the handle's data listeners are
\* invoked if and only if the handle's callback is in the topic's map, the
\* topic is the handle's and, for an address-scoped topic, the event's address
\* is the handle's; each data listener is then invoked once with that payload.
C9_DeliveredIffWanted ==
  last.op = "dispatch"
    => \A id \in DOMAIN handles :
         FiredOf(id) = IF Wanted(id) THEN EachOnce(id, "data", last.data) ELSE <<>>

\* an event of an address reaches a listener and is kept from the listener of a
\* handle registered for the same topic at another address
C9_Witness ==
  /\ last.op = "dispatch"
  /\ last.eventName \in AddressTopics
  /\ last.fired # <<>>
  /\ \E id \in Registered(last.eventName) :
       /\ listeners[id].data # <<>>
       /\ handles[id].address # last.data.address
       /\ FiredOf(id) = <<>>

IsPrefix(s, t) == Len(s) <= Len(t) /\ \A i \in DOMAIN s : s[i] = t[i]

\* what the listeners of the last step's handle must have got
Settled ==
  /\ (last.op \in HandleOps /\ last.result = "resolved")
       => last.fired = EachOnce(last.id, ListenerEvent(last.op), NoData)
  /\ last.op = "dispatch"
       => \A id \in DOMAIN handles :
            Wanted(id) => FiredOf(id) = EachOnce(id, "data", last.data)

\* C10: listeners are never removed: over any unsubscribe()/subscribe() cycles
\* every listener registered stays in its list at its place, every data
\* listener is invoked for each matching event that arrives while the handle
\* is registered, and the 'subscribed'/'unsubscribed' listeners are invoked in
\* registration order once per successful subscribe()/unsubscribe().
C10_ListenersPersist ==
  [][/\ \A id \in DOMAIN listeners :
          /\ id \in DOMAIN listeners'
          /\ \A e \in SubscriptionEvent : IsPrefix(listeners[id][e], listeners'[id][e])
     /\ Settled']_vars

\* an event reaches the data listener of a handle that has unsubscribed and
\* subscribed again after a newer handle registered
C10_Witness ==
  /\ last.op = "dispatch"
  /\ last.eventName \in DOMAIN subscriptions
  /\ ~Ascending(subscriptions[last.eventName])
  /\ \E id \in Registered(last.eventName) :
       /\ id = Head(ObjectValues(subscriptions[last.eventName]))
       /\ FiredOf(id) # <<>>

\* C11: subscribe() on a handle whose callback is already in the topic's map
\* leaves the topic maps and the address buckets exactly as they were and
\* issues no api call, each time it is repeated.
C11_ResubscribeIsNoOp ==
  [][(last'.op = "subscribe" /\ last'.id \in last'.pre.subs)
       => /\ subscriptions' = subscriptions
          /\ contractSubscriptions' = contractSubscriptions
          /\ inflight' = inflight
          /\ upstream' = upstream
          /\ last'.calls = <<>>
          /\ last'.result = "resolved"]_vars

\* a registered handle of an address-scoped topic has called subscribe() twice
\* in a row
C11_Witness ==
  /\ last.op = "subscribe"
  /\ last.eventName \in AddressTopics
  /\ last.id \in last.pre.subs
  /\ last.id \in Ids(last.pre.bucket)
  /\ last.id \in Registered(last.eventName)
  /\ last.calls = <<>>
  /\ upstream[last.address] = OrAll(Bucket(last.address))

\* the logical time a comes strictly before b in the order of the strings
LtLess(a, b) ==
  \E p \in 0..Len(a) :
    /\ p <= Len(b)
    /\ \A q \in 1..p : a[q] = b[q]
    /\ \/ p = Len(a) /\ p < Len(b)
       \/ p < Len(a) /\ p < Len(b) /\ a[p + 1] < b[p + 1]

\* a history by descending logical time, duplicates allowed
Descending(s) == \A i, j \in DOMAIN s : i < j => ~LtLess(s[i].lt, s[j].lt)

Merged == last.op = "mergeTransactions"

\* C12: for a batch of type 'old', and for an empty history whatever the type,
\* mergeTransactions returns the history followed by the batch, both in their
\* order and complete, whatever minLt and maxLt are.
C12_OldOrEmptyAppends ==
  (Merged /\ (last.info.batchType = "old" \/ last.knownTransactions = <<>>))
    => LET k == last.knownTransactions
           n == last.newTransactions
       IN /\ Len(last.result) = Len(k) + Len(n)
          /\ \A i \in DOMAIN k : last.result[i] = k[i]
          /\ \A j \in DOMAIN n : last.result[Len(k) + j] = n[j]

\* a batch of type 'old' has been appended to a history in which the scan for
\* maxLt would have stopped before the end
C12_Witness ==
  /\ Merged
  /\ last.info.batchType = "old"
  /\ last.newTransactions # <<>>
  /\ \E i \in DOMAIN last.knownTransactions :
       LtLess(last.knownTransactions[i].lt, last.info.maxLt)
  /\ last.result = last.knownTransactions \o last.newTransactions

\* where a batch of type 'new' goes: the first place of the history whose lt is
\* strictly less than maxLt, the end when there is none (places counted from 1)
InsertionPoint(k, maxLt) ==
  LET older == {i \in DOMAIN k : LtLess(k[i].lt, maxLt)}
  IN IF older = {} THEN Len(k) + 1 ELSE CHOOSE i \in older : \A j \in older : i <= j

Both == [state |-> TRUE, transactions |-> TRUE]

\* C14: foldSubscriptions returns as total the OR of the flags of all entries
\* and as withoutExcluded the OR of the flags of all entries but the excluded
\* object, entries of equal flags counting; the early exit changes neither.
C14_FoldIsOr ==
  last.op = "foldSubscriptions"
    => /\ last.result.total = Flags(OrAll(Range(last.items)))
       /\ last.result.withoutExcluded =
            Flags(OrAll({e \in Range(last.items) : e.id # last.except}))

\* the loop has left before the excluded entry and the ones behind it, another
\* entry having the flags of the excluded one
C14_Witness ==
  /\ last.op = "foldSubscriptions"
  /\ Len(last.items) = MaxItems
  /\ \E i \in DOMAIN last.items :
       /\ i > 1
       /\ last.items[i].id = last.except
       /\ Flags(last.items[1]) = Flags(last.items[i])
       /\ Flags(last.items[1]) = Both
       /\ \E j \in DOMAIN last.items : j > i /\ Flags(last.items[j]) # NoInterest
  /\ last.result = [total |-> Both, withoutExcluded |-> Both]

\* C15: unsubscribe() of a handle of an address-scoped topic whose id is not in
\* the bucket of its address issues no api call and leaves the bucket and the
\* topic's map as they were.
C15_UnregisteredUnsubscribeIsNoOp ==
  (OnAddress /\ last.op = "unsubscribe" /\ last.id \notin Ids(last.pre.bucket))
    => /\ last.calls = <<>>
       /\ Bucket(last.address) = last.pre.bucket
       /\ Registered(last.eventName) = last.pre.subs

\* C16: when no operation is awaiting the transport, an address has a bucket
\* only if at least one id has an entry in it.
C16_NoEmptyBucket ==
  Idle => \A a \in DOMAIN contractSubscriptions : contractSubscriptions[a] # <<>>

\* the addresses no pending api call is for
Quiet(a) == \A i \in DOMAIN inflight : inflight[i].call.address # a

\* C17: with operations starting while others await the transport and api
\* calls free to fail, in every state in which no api call for an address is
\* pending the interest the provider holds for it is the OR of the flags of the
\* address's bucket.
C17_InterleavedUpstreamIsAggregate ==
  \A a \in Addresses : Quiet(a) => upstream[a] = OrAll(Bucket(a))

\* operation op of handle id awaits the transport
Pending(id, op) == \E i \in DOMAIN inflight : inflight[i].id = id /\ inflight[i].op = op

\* the transport has just settled an api call of operation op of handle id,
\* and with it the operation
SettledBy(id, op) ==
  /\ last.id = id
  /\ last.op = op
  /\ last.transport \in {"ok", "error"}
  /\ last.result = IF last.transport = "ok" THEN "resolved" ELSE "rejected"

\* the entries of the other ids give the address all that the handle asks for
Covered ==
  LET others == OrAll({e \in last.pre.bucket : e.id # last.id})
      own == Entry(last.id, last.eventName)
  IN (own.state => others.state) /\ (own.transactions => others.transactions)

\* the operation the last step began is one that needs no api call: on a global
\* topic, a re-subscribe of a registered handle, an add the others cover, a
\* remove of a registered handle that the others shadow
NeedsNoCall ==
  /\ last.op \in HandleOps
  /\ last.transport = "none"
  /\ \/ last.eventName \in GlobalTopics
     \/ last.op \in {"create", "subscribe"} /\ last.id \in last.pre.subs
     \/ last.op \in {"create", "subscribe"} /\ Covered
     \/ last.op = "unsubscribe" /\ last.id \in Ids(last.pre.bucket) /\ Covered

\* an operation awaits one api call or none, and settles at once when it
\* needs none
SuspendsOnce ==
  /\ last.op \in HandleOps => Len(last.calls) <= 1
  /\ (last.op \in HandleOps /\ last.transport = "none")
       => (last.result = "pending") = (last.calls # <<>>)
  /\ NeedsNoCall => last.result = "resolved" /\ last.calls = <<>>

\* a settled api call is not issued again: a step of the transport takes the
\* call away, any other step adds one call at most
NeverRetried ==
  /\ Len(inflight') <= Len(inflight) + 1
  /\ last'.transport \in {"ok", "error"} => inflight' = Tail(inflight)

\* C18: when the transport settles every api call, every subscribe() and
\* unsubscribe() that awaits one settles, resolved or rejected as the call was;
\* an operation awaits one api call at most, no call is issued again, and an
\* operation that needs no call settles without the transport.
C18_EveryOperationSettles ==
  /\ []SuspendsOnce
  /\ [][NeverRetried]_vars
  /\ \A id \in 1..MaxHandles : \A op \in HandleOps : Pending(id, op) ~> SettledBy(id, op)

\* an unsubscribe() has been rejected with the transport's error while another
\* operation still awaits its call
C18_Witness ==
  /\ SettledBy(last.id, "unsubscribe")
  /\ last.result = "rejected"
  /\ inflight # <<>>

\* handle id has its callback in the map of its topic
HasCallback(id) == id \in Registered(handles[id].eventName)

\* handle id has its entry in the bucket of its address
HasEntry(id) == id \in Ids(Bucket(handles[id].address))

\* C19: in every state, api calls pending or not and whatever has failed, the
\* id of a handle of an address-scoped topic has a callback in the topic's map
\* if and only if it has an entry in the bucket of its address, that entry has
\* the topic's flag, and neither registry holds anything else.
C19_CallbackIffEntry ==
  /\ \A id \in DOMAIN handles :
       handles[id].eventName \in AddressTopics => (HasCallback(id) <=> HasEntry(id))
  /\ \A a \in DOMAIN contractSubscriptions : \A e \in Bucket(a) :
       /\ e.id \in DOMAIN handles
       /\ handles[e.id].address = a
       /\ e = Entry(e.id, handles[e.id].eventName)
  /\ \A t \in DOMAIN subscriptions : \A id \in Registered(t) :
       id \in DOMAIN handles /\ handles[id].eventName = t

\* a subscribe() of a handle has been rejected and rolled back while the call
\* of another operation is pending and another handle is in both registries
C19_Witness ==
  /\ last.op = "subscribe"
  /\ last.transport = "error"
  /\ inflight # <<>>
  /\ ~HasCallback(last.id) /\ ~HasEntry(last.id)
  /\ \E id \in DOMAIN handles : HasCallback(id) /\ HasEntry(id)

\* the provider's interest for the address of the last step has the flag of
\* the step's topic
UpstreamCovers ==
  LET own == Entry(last.id, last.eventName)
  IN /\ own.state => upstream[last.address].state
     /\ own.transactions => upstream[last.address].transactions

\* C20: whenever a subscribe() of a handle of an address-scoped topic resolves,
\* the handle's id is at that moment in the topic's map and in the bucket of
\* its address, and the provider's interest for the address has the handle's
\* flag; operations start while others await the transport and api calls may
\* fail.
C20_ResolvedMeansRegistered ==
  (OnAddress /\ last.op \in {"create", "subscribe"} /\ last.result = "resolved")
    => /\ last.id \in Registered(last.eventName)
       /\ last.id \in Ids(Bucket(last.address))
       /\ UpstreamCovers

\* the last step has called unsubscribe() on handle id: the caller did, or a
\* listener did at place p of a dispatch pass
CalledInPass(id, p) ==
  /\ last.op = "dispatch"
  /\ p \in DOMAIN last.fired
  /\ last.fired[p] = Reentry(id, last.fired[p].listener, last.data)

UnsubscribeInvoked(id) ==
  \/ last.op = "unsubscribe" /\ last.transport = "none" /\ last.id = id
  \/ \E p \in DOMAIN last.fired : CalledInPass(id, p)

\* the last step has called subscribe() on handle id
SubscribeInvoked(id) ==
  last.op \in {"create", "subscribe"} /\ last.transport = "none" /\ last.id = id

\* a call of unsubscribe() takes the handle's callback out of the topic's map
\* at once, whatever becomes of the api call
UnsubscribeRemovesCallback ==
  \A id \in DOMAIN handles :
    UnsubscribeInvoked(id)' => id \notin Registered(handles[id].eventName)'

\* only a call of subscribe() on the handle puts the callback back
OnlySubscribeRegisters ==
  \A t \in DOMAIN subscriptions' :
    \A id \in Registered(t)' \ Registered(t) : SubscribeInvoked(id)'

\* a pass invokes the data listeners of registered handles only
PassReachesRegistered ==
  last'.op = "dispatch" =>
    \A p \in DOMAIN last'.fired :
      last'.fired[p].event = "data" => last'.fired[p].id \in Registered(last'.eventName)

\* a pass invokes no data listener of a handle after a listener of the pass
\* has called unsubscribe() on that handle
PassSkipsUnsubscribed ==
  last.op = "dispatch" =>
    \A p, q \in DOMAIN last.fired :
      (q < p /\ last.fired[p].event = "data") => ~CalledInPass(last.fired[p].id, q)

\* C21: from the call of unsubscribe() on a handle to the next call of
\* subscribe() on it no data listener of the handle is invoked for a raw
\* event: the call removes the callback whether its api call is pending,
\* resolves or is rejected, only subscribe() puts it back, a pass invokes the
\* listeners of registered handles only, and none of a handle that a listener
\* has unsubscribed earlier in the same pass.
C21_NoDataAfterUnsubscribe ==
  [][/\ UnsubscribeRemovesCallback
     /\ OnlySubscribeRegisters
     /\ PassReachesRegistered
     /\ PassSkipsUnsubscribed']_vars

\* what the caller of the merge is to provide: the history and the batch by
\* descending lt, maxLt and minLt the lts of the batch's first and last
\* transactions, a batch of type 'old' older than all of the history, a batch
\* of type 'new' with no transaction of the history strictly between minLt and
\* maxLt
MergePrecondition ==
  LET k == last.knownTransactions
      n == last.newTransactions
      info == last.info
  IN /\ Descending(k)
     /\ Descending(n)
     /\ n # <<>> => info.maxLt = n[1].lt /\ info.minLt = n[Len(n)].lt
     /\ \/ /\ info.batchType = "old"
           /\ \A i \in DOMAIN k : \A j \in DOMAIN n : LtLess(n[j].lt, k[i].lt)
        \/ /\ info.batchType = "new"
           /\ \A i \in DOMAIN k :
                ~(LtLess(info.minLt, k[i].lt) /\ LtLess(k[i].lt, info.maxLt))

\* C22: when the history and the batch are by descending lt, maxLt and minLt
\* are the lts of the batch's first and last transactions, and the batch is of
\* type 'old' and older than all of the history, or of type 'new' with nothing
\* of the history strictly between minLt and maxLt, the history returned is by
\* descending lt, equal lts allowed.
C22_MergeKeepsDescending ==
  (Merged /\ MergePrecondition) => Descending(last.result)

\* a batch of type 'new' from "10" down has gone into the gap between "2" and
\* an entry not above its minLt
C22_Witness ==
  /\ Merged
  /\ MergePrecondition
  /\ last.info.batchType = "new"
  /\ last.info.maxLt = <<1, 0>>
  /\ Len(last.newTransactions) = 2
  /\ Len(last.knownTransactions) >= 2
  /\ last.knownTransactions[1].lt = <<2>>
  /\ InsertionPoint(last.knownTransactions, last.info.maxLt) = 2
  /\ last.result[2] = last.newTransactions[1]
  /\ Descending(last.result)

====
